---------------------------- MODULE Spec2Model ----------------------------
(***************************************************************************)
(* A model of src/src/grapevine.js: the Grapevine connection object, its   *)
(* constructor, its suspended startup sequence (connect, authenticate,     *)
(* heartbeat install), the event_listeners correlation map behind wait(),  *)
(* the inbound 'json' handler, the player list, the request-shaped API     *)
(* calls and the promise send_tell returns.                                *)
(*                                                                         *)
(* JavaScript runs one callback at a time, so every action below is one    *)
(* uninterrupted run of a callback, an API call or the part of the async   *)
(* startup function between two suspension points.                         *)
(***************************************************************************)
EXTENDS Naturals, Sequences, FiniteSets

VARIABLES
    pc,              \* position of the async startup function (lines 33-71)
    socket,          \* this.socket: "null" or "open"
    jsonOn,          \* the 'json' handler of line 36 is installed
    hbHandlers,      \* number of 'grapevine/heartbeat' handlers installed (line 61)
    event_listeners, \* this.event_listeners: event name -> queue of waiter ids
    waiters,         \* every {resolve, reject} pair ever created by wait()
    players,         \* this.players
    sent,            \* envelopes handed to this.socket.send, in order
    emitted,         \* local notifications emitted with this.emit, in order
    tells,           \* the promises send_tell returned, in order
    lastOp           \* the call or callback that ran last, its inputs and outcome

vars == <<pc, socket, jsonOn, hbHandlers, event_listeners, waiters, players,
          sent, emitted, tells, lastOp>>

-----------------------------------------------------------------------------
(* Bounds of the model: waiters ever created, envelopes sent, length of    *)
(* the player list (and of the one passed in options.players), length of a *)
(* tell target, calls of resolve/reject on one waiter, promises returned   *)
(* by send_tell, and length of a credential string.                        *)

MaxWaiters == 2
MaxSent == 3
MaxTells == 2
MaxPlayers == 3
MaxInitPlayers == 1
MaxTargetLen == 3
MaxCalls == 2
MaxCredLen == 1

-----------------------------------------------------------------------------
(* Input sets. *)

\* Player names; "" is the empty string, the one falsy string of JavaScript.
Names == {"", "al", "bo"}

\* Event names that API callers wait on, and those the service may send.
WaitEvents == {"authenticate", "tells/send"}
InEvents == WaitEvents \cup {"players/status"}

\* Error objects a failure acknowledgement may carry.
Errors == {"e1", "e2"}

\* Characters of a tell target; strings that are split are character sequences.
TargetChars == {"b", "@"}
GameNames == {<<"h">>, <<"g">>}

RECURSIVE SeqsUpTo(_, _)
SeqsUpTo(S, n) ==
    IF n = 0 THEN {<<>>}
    ELSE LET shorter == SeqsUpTo(S, n - 1)
         IN  shorter \cup {Append(s, x) : s \in {t \in shorter : Len(t) = n - 1}, x \in S}

Targets == SeqsUpTo(TargetChars, MaxTargetLen)

Range(s) == {s[i] : i \in 1..Len(s)}

NoDup(s) == \A i, j \in 1..Len(s) : s[i] = s[j] => i = j

\* An inbound envelope as the 'json' handler reads it: event, status, error.
\* event "" stands for a frame without an event; status "absent" for undefined.
InEnv(e, s, x) == [event |-> e, status |-> s, error |-> x]

NoEnv == InEnv("", "absent", "undefined")

Inbound ==
    {InEnv(e, s, "undefined") : e \in InEvents \cup {""}, s \in {"absent", "success"}}
        \cup {InEnv(e, "failure", x) : e \in InEvents, x \in Errors}

-----------------------------------------------------------------------------
(* Outbound envelopes: one record shape, unused fields left at their defaults. *)

OutEnv(e) ==
    [event |-> e, ref |-> 0, name |-> "", game |-> <<>>, to_game |-> <<>>,
     to_name |-> <<>>, players |-> <<>>]

\* uuid(): a token no earlier envelope carries.
FreshRef(log) == Len(log) + 1

-----------------------------------------------------------------------------
(* Promise settlement: the first call of resolve or reject settles the      *)
(* promise, every later call is ignored by the promise but still happens.   *)

NoValue == [kind |-> "none", env |-> NoEnv, err |-> "undefined"]

NewWaiter(e, o) ==
    [event |-> e, owner |-> o, state |-> "pending", value |-> NoValue, calls |-> 0]

Settle(w, st, v) ==
    [w EXCEPT !.state = IF w.state = "pending" THEN st ELSE w.state,
              !.value = IF w.state = "pending" THEN v ELSE w.value,
              !.calls = w.calls + 1]

ResolveWith(w, d) == Settle(w, "resolved", [kind |-> "env", env |-> d, err |-> "undefined"])

RejectWith(w, d) == Settle(w, "rejected", [kind |-> "err", env |-> NoEnv, err |-> d.error])

-----------------------------------------------------------------------------
\* What a call or callback gives back: its return value and what it throws.
\* Also the name passed (a player's, or an event's for wait and the 'json'
\* handler) and, for a call on the player list, the list before the call.
\* For the 'json' handler also the status and the ref the envelope carried
\* (0: no ref).
Op(o) ==
    [op |-> o, name |-> "", status |-> "absent", ref |-> 0, before |-> <<>>,
     ret |-> "undefined", thrown |-> "none"]

Init ==
    /\ pc = "connect"
    /\ socket = "null"
    /\ jsonOn = FALSE
    /\ hbHandlers = 0
    /\ event_listeners = [e \in InEvents |-> <<>>]
    /\ waiters = <<>>
    /\ players \in {s \in SeqsUpTo(Names, MaxInitPlayers) : NoDup(s)}
    /\ sent = <<>>
    /\ emitted = <<>>
    /\ tells = <<>>
    /\ lastOp = Op("constructor")

-----------------------------------------------------------------------------
(* The constructor, lines 20-33, from the call of `new Grapevine(...)`. *)

\* An argument as the constructor tests it: its typeof, and its length when
\* it is a string.  "undefined" is the missing argument.
Credentials ==
    {[type |-> t, len |-> 0] : t \in {"undefined", "number"}}
        \cup {[type |-> "string", len |-> n] : n \in 0..MaxCredLen}

\* Fault variant: the length test dropped.
IsValidStringOfAnyLength(c) == c.type = "string"

\* Lines 23-24: the test that guards each throw, negated.
IsValidString(c) == ~(c.type # "string" \/ c.len = 0)

\* Line 30: PACKAGE_VERSION is declared nowhere in the file; it is read only
\* when options.user_agent is falsy, and then names a global that the build
\* may or may not have defined.
AgentThrows(agent, version) == ~agent /\ ~version

\* Before `new Grapevine(...)`: no object yet.
InitNew ==
    /\ pc = "new"
    /\ socket = "null"
    /\ jsonOn = FALSE
    /\ hbHandlers = 0
    /\ event_listeners = [e \in InEvents |-> <<>>]
    /\ waiters = <<>>
    /\ players = <<>>
    /\ sent = <<>>
    /\ emitted = <<>>
    /\ tells = <<>>
    /\ lastOp = Op("new")

\* Lines 20-34: either a throw (no object, nothing started), or the object
\* with its fields set and the startup function suspended in connect().
Construct(cid, csec, agent, version, ps) ==
    /\ pc = "new"
    /\ IF ~IsValidString(cid)
       THEN /\ pc' = "threw"
            /\ players' = players
            /\ lastOp' = [Op("constructor") EXCEPT !.name = "client_id", !.thrown = "TypeError"]
       ELSE IF ~IsValidString(csec)
       THEN /\ pc' = "threw"
            /\ players' = players
            /\ lastOp' = [Op("constructor") EXCEPT !.name = "client_secret", !.thrown = "TypeError"]
       ELSE IF AgentThrows(agent, version)
       THEN /\ pc' = "threw"
            /\ players' = players
            /\ lastOp' = [Op("constructor") EXCEPT !.name = "user_agent", !.thrown = "ReferenceError"]
       ELSE /\ pc' = "connect"
            /\ players' = ps
            /\ lastOp' = Op("constructor")
    /\ UNCHANGED <<socket, jsonOn, hbHandlers, event_listeners, waiters, sent, emitted, tells>>

Constructs ==
    \E cid, csec \in Credentials, agent, version \in BOOLEAN,
       ps \in {s \in SeqsUpTo(Names, MaxInitPlayers) : NoDup(s)} :
        Construct(cid, csec, agent, version, ps)

\* The constructor returned an object.
Constructed == pc \notin {"new", "threw"}

-----------------------------------------------------------------------------
(* The startup function, lines 33-71.  It suspends at `await                *)
(* backend.connect()` and at `await this.wait('authenticate')`; emit() runs  *)
(* the application's listeners synchronously, so the listeners of           *)
(* 'connected' run between line 35 and line 36.                             *)

NotesOnConnect == <<"connected">>

\* Fault variant: 'authenticated' emitted before the acknowledgement is awaited.
NotesOnAuthSendEarly == <<"authenticated">>

NotesOnAuthSend == <<>>

NotesOnAuthenticated == <<"authenticated">>

AuthenticateEnv == OutEnv("authenticate")

\* wait(event), lines 102-108: push {resolve, reject} at the tail of the queue.
Enqueue(m, e, id) == [m EXCEPT ![e] = Append(m[e], id)]

\* The waiter the startup function is suspended on.
IsStartup(w) == w.owner = "startup"

StartupWaiters == {i \in 1..Len(waiters) : IsStartup(waiters[i])}

\* Fault variant: the rejection of the awaited promise is swallowed.
AfterAwaitSwallowed(w) == "done"

\* Fault variant: the await throws whatever the promise settled with.
AfterAwaitThrows(w) == "failed"

\* Where `await` resumes the startup function for a settled promise.
AfterAwait(w) == IF w.state = "resolved" THEN "done" ELSE "failed"

\* Lines 34-35: backend.connect() resolved; the socket is kept, 'connected' emitted.
ConnectResume ==
    /\ pc = "connect"
    /\ socket' = "open"
    /\ emitted' = emitted \o NotesOnConnect
    /\ pc' = "emit_connected"
    /\ lastOp' = Op("connect_resume")
    /\ UNCHANGED <<jsonOn, hbHandlers, event_listeners, waiters, players, sent, tells>>

\* Lines 36-60: install the 'json' handler, send authenticate, call wait().
AuthSend ==
    /\ pc = "emit_connected"
    /\ jsonOn' = TRUE
    /\ sent' = Append(sent, AuthenticateEnv)
    /\ waiters' = Append(waiters, NewWaiter("authenticate", "startup"))
    /\ event_listeners' = Enqueue(event_listeners, "authenticate", Len(waiters) + 1)
    /\ emitted' = emitted \o NotesOnAuthSend
    /\ pc' = "wait_auth"
    /\ lastOp' = Op("auth_send")
    /\ UNCHANGED <<socket, hbHandlers, players, tells>>

\* Lines 60-70: the awaited promise is settled.  Resolved: the heartbeat
\* handler is installed and 'authenticated' emitted.  Rejected: the await
\* throws and the startup function ends there.
AuthResume ==
    /\ pc = "wait_auth"
    /\ \E i \in StartupWaiters :
        /\ waiters[i].state # "pending"
        /\ pc' = AfterAwait(waiters[i])
    /\ hbHandlers' = IF pc' = "done" THEN hbHandlers + 1 ELSE hbHandlers
    /\ emitted' = IF pc' = "done" THEN emitted \o NotesOnAuthenticated ELSE emitted
    /\ lastOp' = Op("auth_resume")
    /\ UNCHANGED <<socket, jsonOn, event_listeners, waiters, players, sent, tells>>

-----------------------------------------------------------------------------
(* The 'json' handler, lines 36-48. *)

\* Line 38: Map.get gives the queue, or undefined when the key was never set.
\* wait() never stores an empty queue, so the empty queue stands for undefined.
HasQueue(m, e) == m[e] # <<>>

\* Lines 40-45, for one waiter of the queue.
Notify(w, d) ==
    IF d.status # "absent"
    THEN IF d.status = "success" THEN ResolveWith(w, d) ELSE RejectWith(w, d)
    ELSE ResolveWith(w, d)

\* Fault variant: one queue for every event, the loop running over all waiters.
NotifyEvery(ws, q, d) == [i \in 1..Len(ws) |-> Notify(ws[i], d)]

\* Lines 39-46: the loop runs over every waiter of the queue.
NotifyAll(ws, q, d) == [i \in 1..Len(ws) |-> IF i \in Range(q) THEN Notify(ws[i], d) ELSE ws[i]]

\* Fault variant: line 47 written with `this.`, deleting the whole queue.
DeleteListenersDone(m, e) == [m EXCEPT ![e] = <<>>]

\* Line 47: `event_listeners` is not a name in scope (the map is
\* this.event_listeners), so the statement throws before anything is deleted.
DeleteListeners(m, e) == m

DeleteThrows == "ReferenceError"

\* A run of the handler on d with ref r, as lastOp keeps it.
RanJson(d, r) == [Op("json") EXCEPT !.name = d.event, !.status = d.status, !.ref = r]

\* The handler on an envelope d that carries ref r.  The handler never reads
\* dobj.ref: what it does depends on event, status and error alone.
JsonHandler(d, r) ==
    /\ jsonOn
    /\ IF d.event = ""
       THEN /\ lastOp' = [RanJson(d, r) EXCEPT !.thrown = "none"]
            /\ UNCHANGED <<event_listeners, waiters>>
       ELSE IF ~HasQueue(event_listeners, d.event)
       THEN \* `for (let event of undefined)` throws
            /\ lastOp' = [RanJson(d, r) EXCEPT !.thrown = "TypeError"]
            /\ UNCHANGED <<event_listeners, waiters>>
       ELSE \* the queue is never emptied, so the count of calls is capped here
            /\ \A i \in Range(event_listeners[d.event]) : waiters[i].calls < MaxCalls
            /\ waiters' = NotifyAll(waiters, event_listeners[d.event], d)
            /\ event_listeners' = DeleteListeners(event_listeners, d.event)
            /\ lastOp' = [RanJson(d, r) EXCEPT !.thrown = DeleteThrows]
    /\ UNCHANGED <<pc, socket, jsonOn, hbHandlers, players, sent, emitted, tells>>

\* An envelope without ref.
Deliver(d) == JsonHandler(d, 0)

-----------------------------------------------------------------------------
(* The API calls.  The application may call them at any time after          *)
(* construction, also from a listener of 'connected'.                       *)

\* this.socket.send(...) on a null socket throws a TypeError.
CanSend == socket = "open"

\* Room in the bounded send log; the authenticate envelope always finds room.
Room(n) == Len(sent) + n + (IF pc \in {"connect", "emit_connected"} THEN 1 ELSE 0) <= MaxSent

WaiterRoom == Len(waiters) + (IF pc \in {"connect", "emit_connected"} THEN 1 ELSE 0) < MaxWaiters

SignInEnv(n) == [OutEnv("players/sign-in") EXCEPT !.name = n]

SignOutEnv(n) == [OutEnv("players/sign-out") EXCEPT !.name = n]

\* sign_in(name), lines 77-84.
sign_in(n) ==
    /\ IF CanSend
       THEN /\ Room(1)
            /\ sent' = Append(sent, SignInEnv(n))
            /\ lastOp' = Op("sign_in")
       ELSE /\ sent' = sent
            /\ lastOp' = [Op("sign_in") EXCEPT !.thrown = "TypeError"]
    /\ UNCHANGED <<pc, socket, jsonOn, hbHandlers, event_listeners, waiters, players, emitted, tells>>

\* sign_out(name), lines 89-96.
sign_out(n) ==
    /\ IF CanSend
       THEN /\ Room(1)
            /\ sent' = Append(sent, SignOutEnv(n))
            /\ lastOp' = Op("sign_out")
       ELSE /\ sent' = sent
            /\ lastOp' = [Op("sign_out") EXCEPT !.thrown = "TypeError"]
    /\ UNCHANGED <<pc, socket, jsonOn, hbHandlers, event_listeners, waiters, players, emitted, tells>>

\* wait(event), lines 102-108, called by the application.
wait(e) ==
    /\ WaiterRoom
    /\ waiters' = Append(waiters, NewWaiter(e, "user"))
    /\ event_listeners' = Enqueue(event_listeners, e, Len(waiters) + 1)
    /\ lastOp' = [Op("wait") EXCEPT !.name = e, !.ret = "promise"]
    /\ UNCHANGED <<pc, socket, jsonOn, hbHandlers, players, sent, emitted, tells>>

\* get_status(game), lines 113-128.  The game is a character sequence; the
\* empty one stands for every argument that fails the test of line 114.
\* Fault variant: the test of line 114 dropped, every query a 'players/status'.
StatusEnvPlayers(g, r) == [OutEnv("players/status") EXCEPT !.ref = r]

StatusEnv(g, r) ==
    IF Len(g) > 0
    THEN [OutEnv("games/status") EXCEPT !.ref = r, !.game = g]
    ELSE [OutEnv("players/status") EXCEPT !.ref = r]

get_status(g) ==
    /\ IF CanSend
       THEN /\ Room(1)
            /\ sent' = Append(sent, StatusEnv(g, FreshRef(sent)))
            /\ lastOp' = Op("get_status")
       ELSE /\ sent' = sent
            /\ lastOp' = [Op("get_status") EXCEPT !.thrown = "TypeError"]
    /\ UNCHANGED <<pc, socket, jsonOn, hbHandlers, event_listeners, waiters, players, emitted, tells>>

-----------------------------------------------------------------------------
(* The player list, lines 135-163. *)

\* Array.prototype.find: the first element equal to name, or undefined.
Find(s, n) ==
    IF n \in Range(s) THEN [defined |-> TRUE, value |-> n]
    ELSE [defined |-> FALSE, value |-> ""]

\* JavaScript truthiness of a find() result: undefined and "" are falsy.
Truthy(r) == r.defined /\ r.value # ""

\* Array.prototype.findIndex, one-based: 0 stands for JavaScript's -1.
FindIndex(s, n) ==
    IF n \in Range(s) THEN CHOOSE i \in 1..Len(s) : s[i] = n /\ \A j \in 1..(i - 1) : s[j] # n
    ELSE 0

\* Fault variant: the entry is overwritten by the last one (swap-remove).
SpliceSwap(s, i) == [j \in 1..(Len(s) - 1) |-> IF j = i THEN s[Len(s)] ELSE s[j]]

\* splice(i, 1): the list without its i-th entry.
Splice(s, i) == SubSeq(s, 1, i - 1) \o SubSeq(s, i + 1, Len(s))

\* add_player(name, online), lines 135-145.
add_player(n, online) ==
    /\ IF ~Truthy(Find(players, n))
       THEN /\ Len(players) < MaxPlayers
            /\ players' = Append(players, n)
            /\ IF online
               THEN IF CanSend
                    THEN /\ Room(1)
                         /\ sent' = Append(sent, SignInEnv(n))
                         /\ lastOp' = [Op("add_player") EXCEPT !.name = n, !.before = players, !.ret = "true"]
                    ELSE /\ sent' = sent
                         /\ lastOp' = [Op("add_player") EXCEPT !.name = n, !.before = players, !.thrown = "TypeError"]
               ELSE /\ sent' = sent
                    /\ lastOp' = [Op("add_player") EXCEPT !.name = n, !.before = players, !.ret = "true"]
       ELSE /\ players' = players
            /\ sent' = sent
            /\ lastOp' = [Op("add_player") EXCEPT !.name = n, !.before = players, !.ret = "false"]
    /\ UNCHANGED <<pc, socket, jsonOn, hbHandlers, event_listeners, waiters, emitted, tells>>

\* remove_player(name, online), lines 152-163.
remove_player(n, online) ==
    /\ LET i == FindIndex(players, n)
       IN  IF i # 0
           THEN /\ players' = Splice(players, i)
                /\ IF online
                   THEN IF CanSend
                        THEN /\ Room(1)
                             /\ sent' = Append(sent, SignOutEnv(n))
                             /\ lastOp' = [Op("remove_player") EXCEPT !.name = n, !.before = players, !.ret = "true"]
                        ELSE /\ sent' = sent
                             /\ lastOp' = [Op("remove_player") EXCEPT !.name = n, !.before = players, !.thrown = "TypeError"]
                   ELSE /\ sent' = sent
                        /\ lastOp' = [Op("remove_player") EXCEPT !.name = n, !.before = players, !.ret = "true"]
           ELSE /\ players' = players
                /\ sent' = sent
                /\ lastOp' = [Op("remove_player") EXCEPT !.name = n, !.before = players, !.ret = "false"]
    /\ UNCHANGED <<pc, socket, jsonOn, hbHandlers, event_listeners, waiters, emitted, tells>>

-----------------------------------------------------------------------------
(* send_tell(message, from, target, game_name), lines 172-198. *)

\* String.prototype.split('@'): the pieces between the separators; a string
\* without separator gives one piece, the empty string gives one empty piece.
RECURSIVE Split(_)
Split(t) ==
    IF t = <<>> THEN << <<>> >>
    ELSE LET rest == Split(Tail(t))
         IN  IF Head(t) = "@" THEN << <<>> >> \o rest
             ELSE << <<Head(t)>> \o Head(rest) >> \o Tail(rest)

\* Fault variant: the last piece of the target taken as the game.
TellGameLast(spl, game_name) == IF Len(spl) > 1 THEN spl[Len(spl)] ELSE game_name

\* Lines 175-178: the game the tell goes to.
TellGame(spl, game_name) == IF Len(spl) > 1 THEN spl[2] ELSE game_name

\* Line 179: the player the tell goes to.
TellName(spl) == spl[1]

TellEnv(t, g, r) ==
    [OutEnv("tells/send") EXCEPT !.ref = r, !.to_game = TellGame(Split(t), g),
                                 !.to_name = TellName(Split(t))]

\* The promise send_tell returns: the waiter it awaits (0: none), the ref of
\* its request (0: none sent), its state and the value it settled with.
AwaitingTell(w, r) == [waiter |-> w, ref |-> r, state |-> "pending", value |-> "undefined"]

\* Line 195: the promise rejected with the error caught.
FailedTell(x) == [waiter |-> 0, ref |-> 0, state |-> "rejected", value |-> x]

\* Room for one more promise in the bounded list of them.
TellRoom == Len(tells) < MaxTells

\* With a null socket line 181 throws inside the try block and the returned
\* promise is rejected with the TypeError; nothing is sent or enqueued.
send_tell(t, g) ==
    /\ TellRoom
    /\ IF CanSend
       THEN /\ Room(1)
            /\ sent' = Append(sent, TellEnv(t, g, FreshRef(sent)))
            /\ waiters' = Append(waiters, NewWaiter("tells/send", "tell"))
            /\ event_listeners' = Enqueue(event_listeners, "tells/send", Len(waiters) + 1)
            /\ tells' = Append(tells, AwaitingTell(Len(waiters) + 1, FreshRef(sent)))
            /\ lastOp' = [Op("send_tell") EXCEPT !.ret = "promise"]
       ELSE /\ UNCHANGED <<sent, waiters, event_listeners>>
            /\ tells' = Append(tells, FailedTell("TypeError"))
            /\ lastOp' = [Op("send_tell") EXCEPT !.ret = "rejected TypeError"]
    /\ UNCHANGED <<pc, socket, jsonOn, hbHandlers, players, emitted>>

\* Fault variant: the catch block missing, every settled waiter reads as sent.
TellOutcomeSent(f, w) == [f EXCEPT !.state = "resolved", !.value = "Sent"]

\* Lines 192-196: the await of line 192 resumes once the waiter is settled;
\* resolved, the returned promise resolves to 'Sent'; rejected, the catch
\* block rejects it with what the waiter was rejected with.
TellOutcome(f, w) ==
    IF w.state = "resolved"
    THEN [f EXCEPT !.state = "resolved", !.value = "Sent"]
    ELSE [f EXCEPT !.state = "rejected", !.value = w.value.err]

TellResume(k) ==
    /\ tells[k].state = "pending"
    /\ tells[k].waiter # 0
    /\ waiters[tells[k].waiter].state # "pending"
    /\ tells' = [tells EXCEPT ![k] = TellOutcome(tells[k], waiters[tells[k].waiter])]
    /\ lastOp' = Op("tell_resume")
    /\ UNCHANGED <<pc, socket, jsonOn, hbHandlers, event_listeners, waiters, players,
                   sent, emitted>>

-----------------------------------------------------------------------------
(* The transport (./backend, not part of the sources at hand) emits         *)
(* 'grapevine/heartbeat' on the socket for a heartbeat ping of the service; *)
(* lines 61-69 are the handler the startup function installs for it.        *)

\* Fault variant: the heartbeat sent without the player list.
HeartbeatEnvBare(ps) == OutEnv("heartbeat")

\* Lines 62-67: the envelope a heartbeat handler sends.
HeartbeatEnv(ps) == [OutEnv("heartbeat") EXCEPT !.players = ps]

\* Line 68: what a heartbeat handler emits.
HeartbeatNote == "heartbeat"

\* One ping of the service: every installed handler runs once.  No event of
\* the transport comes between line 35 and line 36, which run in one go.
HeartbeatPing ==
    /\ socket = "open"
    /\ pc # "emit_connected"
    /\ Room(hbHandlers)
    /\ sent' = sent \o [i \in 1..hbHandlers |-> HeartbeatEnv(players)]
    /\ emitted' = emitted \o [i \in 1..hbHandlers |-> HeartbeatNote]
    /\ lastOp' = Op("heartbeat_ping")
    /\ UNCHANGED <<pc, socket, jsonOn, hbHandlers, event_listeners, waiters, players, tells>>

-----------------------------------------------------------------------------
(* The steps of the program itself, of the transport and of the application. *)

Startup == ConnectResume \/ AuthSend \/ AuthResume

Inbox == \E d \in Inbound : Deliver(d)

Waits == \E e \in WaitEvents : wait(e)

Registry ==
    \/ \E n \in Names, online \in BOOLEAN : add_player(n, online)
    \/ \E n \in Names, online \in BOOLEAN : remove_player(n, online)

Tells == \E t \in Targets, g \in GameNames : send_tell(t, g)

Notices ==
    \/ \E n \in Names : sign_in(n)
    \/ \E n \in Names : sign_out(n)
    \/ \E g \in GameNames \cup {<<>>} : get_status(g)

Next == Startup \/ Inbox \/ HeartbeatPing \/ Waits \/ Registry \/ Tells \/ Notices

Spec == Init /\ [][Next]_vars

\* The connection under an application that only waits for events.
NextCorrelator == Startup \/ Inbox \/ HeartbeatPing \/ Waits

\* options.players omitted: line 28 starts the list empty.
InitBare == Init /\ players = <<>>

SpecCorrelator == InitBare /\ [][NextCorrelator]_vars

\* The connection under an application that only keeps the player list.
NextRegistry == ConnectResume \/ AuthSend \/ Registry

SpecRegistry == Init /\ [][NextRegistry]_vars

\* The connection under an application that only sends tells.
NextTell == ConnectResume \/ AuthSend \/ Tells

SpecTell == InitBare /\ [][NextTell]_vars

\* The connection under an application that signs players in and out and
\* asks for status.
NextNotices == ConnectResume \/ AuthSend \/ Notices

SpecNotices == Init /\ [][NextNotices]_vars

\* Envelopes named 'authenticate'.
InboundAuth == {d \in Inbound : d.event = "authenticate"}

InboxAuth == \E d \in InboundAuth : Deliver(d)

\* Calls on the player list that send nothing, with names that are not empty.
RegistryOffline ==
    \/ \E n \in Names \ {""} : add_player(n, FALSE)
    \/ \E n \in Names \ {""} : remove_player(n, FALSE)

\* The connection under heartbeat pings of the service, the application
\* keeping the player list.
NextHeartbeat == Startup \/ InboxAuth \/ HeartbeatPing \/ RegistryOffline

SpecHeartbeat == InitBare /\ [][NextHeartbeat]_vars

\* The constructor and what follows it, the application waiting for events
\* on the object it got.
WaitsOnObject == Constructed /\ Waits

NextConstruct == Constructs \/ Startup \/ InboxAuth \/ WaitsOnObject

SpecConstruct == InitNew /\ [][NextConstruct]_vars

\* The connection under an application that only waits for events, the
\* startup function being resumed whenever the promise it awaits is settled:
\* the continuation of an await is a microtask, run when the callback that
\* settled the promise returns.
SpecHandshakeLive == SpecCorrelator /\ WF_vars(AuthResume)

\* Tells to one player of one game.
TellsPlain == send_tell(<<"b">>, <<"h">>)

\* Envelopes named 'tells/send'.
InboundTell == {d \in Inbound : d.event = "tells/send"}

\* The service acknowledges a tell, echoing the ref of the request.
Acks == \E d \in InboundTell, k \in 1..Len(tells) : tells[k].ref # 0 /\ JsonHandler(d, tells[k].ref)

\* Envelopes without status: broadcasts, and the frame without event.
Broadcasts == {d \in Inbound : d.status = "absent"}

\* The service answers tells and broadcasts.
InboxTell == \E d \in InboundTell \cup Broadcasts : Deliver(d)

TellResumes == \E k \in 1..Len(tells) : TellResume(k)

\* The connection under an application that sends tells and awaits them.
NextTellAck == ConnectResume \/ AuthSend \/ TellsPlain \/ InboxTell \/ TellResumes

SpecTellAck == InitBare /\ [][NextTellAck]_vars

\* The same, the service echoing the refs of the tells in what it answers.
NextTellRef == ConnectResume \/ AuthSend \/ TellsPlain \/ Acks \/ TellResumes

SpecTellRef == InitBare /\ [][NextTellRef]_vars

-----------------------------------------------------------------------------
(* Properties of the handshake. *)

\* The step is a run of the 'json' handler on an envelope of d's event name.
JsonRan(d) ==
    /\ d.event \in InEvents
    /\ lastOp'.op = "json"
    /\ lastOp'.name = d.event
    /\ lastOp'.status = d.status

IsHandshakeNote(x) == x \in {"connected", "authenticated"}

HandshakeNotes == SelectSeq(emitted, IsHandshakeNote)

StartupResolved == \E i \in StartupWaiters : waiters[i].state = "resolved"

StartupRejected == \E i \in StartupWaiters : waiters[i].state = "rejected"

HeartbeatSent == \E k \in 1..Len(sent) : sent[k].event = "heartbeat"

\* C1: the handshake notifications are always a prefix of 'connected',
\* 'authenticated' (never reversed, never repeated); 'authenticated' is only
\* emitted for a resolved handshake waiter, and once the startup function has
\* run to its end on a successful acknowledgement they are exactly
\* 'connected' then 'authenticated', whatever was delivered in between or after.
C1_HandshakeNotifications ==
    /\ HandshakeNotes \in {<<>>, <<"connected">>, <<"connected", "authenticated">>}
    /\ "authenticated" \in Range(emitted) => StartupResolved /\ pc = "done"
    /\ pc = "done" => HandshakeNotes = <<"connected", "authenticated">>

\* A successful handshake whose acknowledgement was delivered again afterwards.
C1_Witness ==
    /\ pc = "done"
    /\ \E i \in StartupWaiters :
        /\ waiters[i].value.env.status = "success"
        /\ waiters[i].calls >= 2
    /\ HandshakeNotes = <<"connected", "authenticated">>

\* C2: a failure acknowledgement delivered to the pending handshake waiter
\* rejects it with the acknowledgement's error; a rejected handshake waiter
\* stays rejected, and while it is rejected 'authenticated' has not been
\* emitted, no heartbeat handler is installed and no heartbeat envelope sent.
C2_RejectedHandshakeHalts ==
    /\ [](StartupRejected =>
            /\ "authenticated" \notin Range(emitted)
            /\ hbHandlers = 0
            /\ ~HeartbeatSent
            /\ pc \in {"wait_auth", "failed"})
    /\ [][/\ StartupRejected => StartupRejected'
          /\ \A d \in Inbound, i \in StartupWaiters :
                (JsonRan(d) /\ d.event = "authenticate" /\ d.status = "failure"
                    /\ waiters[i].state = "pending" /\ Deliver(d))
                => /\ waiters'[i].state = "rejected"
                   /\ waiters'[i].value.err = d.error]_vars

\* The handshake was rejected, the startup function has ended, and both a
\* heartbeat ping and a later success acknowledgement arrived since.
C2_Witness ==
    /\ pc = "failed"
    /\ \E i \in StartupWaiters : waiters[i].state = "rejected" /\ waiters[i].calls >= 2
    /\ lastOp.op = "heartbeat_ping"

-----------------------------------------------------------------------------
(* Properties of the correlation map under deliveries. *)

Queue(e) == event_listeners[e]

AllPending(q) == \A i \in Range(q) : waiters[i].state = "pending"

\* Every waiter outside the queue q is left as it was.
OthersUntouched(q) == \A i \in 1..Len(waiters) : i \notin Range(q) => waiters'[i] = waiters[i]

\* The waiters of q beyond its head are left as they were.
RestUntouched(q) == \A k \in 2..Len(q) : waiters'[q[k]] = waiters[q[k]]

\* C3: a success envelope for an event with n >= 1 pending waiters resolves
\* the head of the queue only and removes it; the other n-1 stay pending and
\* queued in their order.
C3_SuccessSettlesHeadOnly ==
    [][\A d \in Inbound :
        (JsonRan(d) /\ d.status = "success" /\ Deliver(d)
            /\ HasQueue(event_listeners, d.event) /\ AllPending(Queue(d.event)))
        => /\ waiters'[Head(Queue(d.event))].state = "resolved"
           /\ RestUntouched(Queue(d.event))
           /\ event_listeners'[d.event] = Tail(Queue(d.event))]_vars

\* C4: an envelope whose status is present and not "success", for an event
\* with n >= 1 pending waiters, rejects the head of the queue only, with
\* envelope.error, and removes it; the other n-1 stay pending and queued.
C4_FailureSettlesHeadOnly ==
    [][\A d \in Inbound :
        (JsonRan(d) /\ d.status = "failure" /\ Deliver(d)
            /\ HasQueue(event_listeners, d.event) /\ AllPending(Queue(d.event)))
        => /\ waiters'[Head(Queue(d.event))].state = "rejected"
           /\ waiters'[Head(Queue(d.event))].value.err = d.error
           /\ RestUntouched(Queue(d.event))
           /\ event_listeners'[d.event] = Tail(Queue(d.event))]_vars

\* C5: an envelope without status calls resolve, with that envelope, on every
\* waiter queued for its event (settling the pending ones with it), touches
\* no other waiter and leaves the queue as long as it was.
C5_BroadcastResolvesAllKeepsQueue ==
    [][\A d \in Inbound :
        (JsonRan(d) /\ d.status = "absent" /\ Deliver(d))
        => /\ \A i \in Range(Queue(d.event)) :
                /\ waiters'[i].calls = waiters[i].calls + 1
                /\ waiters[i].state = "pending"
                    => waiters'[i].state = "resolved" /\ waiters'[i].value.env = d
                /\ waiters[i].state # "pending"
                    => waiters'[i].state = waiters[i].state /\ waiters'[i].value = waiters[i].value
           /\ OthersUntouched(Queue(d.event))
           /\ Len(event_listeners'[d.event]) = Len(Queue(d.event))
           /\ event_listeners' = event_listeners]_vars

\* Two waiters of one queue, both resolved by the same status-less envelope
\* and both still queued.
C5_Witness ==
    /\ lastOp.op = "json"
    /\ \E e \in InEvents :
        /\ Len(Queue(e)) = 2
        /\ \A i \in Range(Queue(e)) :
            /\ waiters[i].state = "resolved"
            /\ waiters[i].value.env = InEnv(e, "absent", "undefined")

\* C6: an envelope whose event has no queue is dropped silently: the handler
\* raises nothing, settles no waiter and changes neither the correlation map,
\* the player list nor the connection state.
C6_UnknownEventSilentDrop ==
    [][\A d \in Inbound :
        (JsonRan(d) /\ ~HasQueue(event_listeners, d.event) /\ Deliver(d))
        => /\ lastOp'.thrown = "none"
           /\ UNCHANGED <<event_listeners, waiters, players, pc, socket, hbHandlers>>]_vars

\* C7: no waiter has its resolve or reject continuation invoked more than once.
C7_SettledAtMostOnce == \A i \in 1..Len(waiters) : waiters[i].calls <= 1

-----------------------------------------------------------------------------
(* Properties of the player list. *)

\* after is before without its first entry equal to n, the rest in order.
RemovedFirst(before, n, after) ==
    \E i \in 1..Len(before) :
        /\ before[i] = n
        /\ \A j \in 1..(i - 1) : before[j] # n
        /\ Len(after) = Len(before) - 1
        /\ \A j \in 1..Len(after) : after[j] = IF j < i THEN before[j] ELSE before[j + 1]

\* C8: the player list never holds a name twice, and add_player(name)
\* returns true and appends name exactly when name was absent, returns false
\* and leaves the list alone exactly when name was present; for every name
\* string, the empty one included.
C8_AddPlayerKeepsDuplicateFree ==
    [][/\ NoDup(players) => NoDup(players')
       /\ \A n \in Names :
            (lastOp'.op = "add_player" /\ lastOp'.name = n /\ add_player(n, FALSE))
            => IF n \in Range(players)
               THEN lastOp'.ret = "false" /\ players' = players
               ELSE lastOp'.ret = "true" /\ players' = Append(players, n)]_vars

\* C9: remove_player(name) returns true and takes name out, the other
\* entries keeping their order, exactly when name is present, and returns
\* false leaving the list alone when it is absent; add_player(name) on a list
\* without name followed by remove_player(name) gives back the list as it was.
\* (Calls that ask for a sign-out on a socket that is still null throw and
\* return nothing; the first part speaks of the calls that return.)
C9_RemovePlayerInverse ==
    [][/\ \A n \in Names, o \in BOOLEAN :
            (lastOp'.op = "remove_player" /\ lastOp'.name = n /\ (o => CanSend)
                /\ remove_player(n, o))
            => IF n \in Range(players)
               THEN /\ lastOp'.ret = "true"
                    /\ RemovedFirst(players, n, players')
                    /\ NoDup(players) => n \notin Range(players')
               ELSE lastOp'.ret = "false" /\ players' = players
       /\ (/\ lastOp.op = "add_player"
           /\ lastOp.name \notin Range(lastOp.before)
           /\ lastOp'.op = "remove_player"
           /\ lastOp'.name = lastOp.name)
          => /\ players' = lastOp.before
             /\ lastOp'.thrown = "none" => lastOp'.ret = "true"]_vars

\* A name was removed from between two others, which kept their order.
C9_Witness ==
    /\ lastOp.op = "remove_player"
    /\ lastOp.ret = "true"
    /\ Len(lastOp.before) = 3
    /\ lastOp.before[2] = lastOp.name
    /\ lastOp.before[1] # lastOp.before[3]
    /\ players = <<lastOp.before[1], lastOp.before[3]>>

-----------------------------------------------------------------------------
(* Properties of send_tell. *)

HasAt(t) == "@" \in Range(t)

FirstAt(t) == CHOOSE i \in 1..Len(t) : t[i] = "@" /\ \A j \in 1..(i - 1) : t[j] # "@"

\* The part of t before its first '@', all of t when it has none.
BeforeFirstAt(t) == IF HasAt(t) THEN SubSeq(t, 1, FirstAt(t) - 1) ELSE t

\* The component of t after its first '@': up to the next '@' or the end.
AfterFirstAt(t) == BeforeFirstAt(SubSeq(t, FirstAt(t) + 1, Len(t)))

\* C10: a send_tell on an open socket sends exactly one envelope, a
\* 'tells/send' whose to_name is the part of target before the first '@' and
\* whose to_game is the component after the first '@' when target has one,
\* game_name otherwise.
C10_TellRouting ==
    [][\A t \in Targets, g \in GameNames :
        (lastOp'.op = "send_tell" /\ CanSend /\ send_tell(t, g))
        => /\ Len(sent') = Len(sent) + 1
           /\ SubSeq(sent', 1, Len(sent)) = sent
           /\ sent'[Len(sent')].event = "tells/send"
           /\ sent'[Len(sent')].to_name = BeforeFirstAt(t)
           /\ sent'[Len(sent')].to_game = IF HasAt(t) THEN AfterFirstAt(t) ELSE g]_vars

\* A tell to "b@b" was sent: player "b", game "b", whatever game_name was.
C10_Witness ==
    /\ lastOp.op = "send_tell"
    /\ lastOp.ret = "promise"
    /\ sent[Len(sent)].event = "tells/send"
    /\ sent[Len(sent)].to_name = <<"b">>
    /\ sent[Len(sent)].to_game = <<"b">>

-----------------------------------------------------------------------------
(* Properties of the promise send_tell returns. *)

\* The waiter the k-th promise awaits.
TellWaiter(k) == waiters[tells[k].waiter]

\* The k-th promise is settled as its waiter was.
SettledAsWaiter(k) ==
    /\ tells[k].state = "resolved"
        => TellWaiter(k).state = "resolved" /\ tells[k].value = "Sent"
    /\ tells[k].state = "rejected"
        => TellWaiter(k).state = "rejected" /\ tells[k].value = TellWaiter(k).value.err

\* C11 (as the claim states it): a promise of send_tell is pending or was
\* settled through a 'tells/send' envelope, resolved to 'Sent' or rejected
\* with the error the envelope carried.
C11_SettledOnlyByAck ==
    \A k \in 1..Len(tells) :
        tells[k].state # "pending"
        => /\ tells[k].waiter # 0
           /\ SettledAsWaiter(k)

\* C11 (amended): a send_tell on an open socket returns a pending promise
\* that awaits a 'tells/send' waiter; that waiter is touched by 'tells/send'
\* envelopes only; the first such envelope after the call resolves it when
\* its status is "success" (or it carries none) and rejects it with exactly
\* the envelope's error otherwise; the promise then settles as the waiter
\* did, to 'Sent' or with that error, and never changes again.  A send_tell
\* on a socket that is still null returns a promise rejected with the
\* TypeError of the send.
C11_TellSettledByItsAck ==
    [][/\ \A k \in 1..Len(tells') :
            IF k > Len(tells)
            THEN IF CanSend
                 THEN /\ tells'[k].state = "pending"
                      /\ tells'[k].waiter = Len(waiters')
                      /\ waiters'[tells'[k].waiter] = NewWaiter("tells/send", "tell")
                 ELSE tells'[k] = FailedTell("TypeError") /\ waiters' = waiters
            ELSE /\ tells[k].state # "pending" => tells'[k] = tells[k]
                 /\ tells'[k].waiter = tells[k].waiter
                 /\ tells[k].waiter # 0
                    => /\ tells'[k].state # "pending" => TellWaiter(k).state # "pending"
                       /\ SettledAsWaiter(k)'
                       /\ waiters'[tells[k].waiter] # TellWaiter(k)
                          => lastOp'.op = "json" /\ lastOp'.name = "tells/send"
       /\ \A d \in Inbound :
            (JsonRan(d) /\ d.event = "tells/send" /\ JsonHandler(d, lastOp'.ref))
            => \A k \in 1..Len(tells) :
                (tells[k].waiter # 0 /\ TellWaiter(k).state = "pending")
                => waiters'[tells[k].waiter].state =
                        (IF d.status = "failure" THEN "rejected" ELSE "resolved")
                   /\ waiters'[tells[k].waiter].value.err =
                        (IF d.status = "failure" THEN d.error ELSE "undefined")]_vars

\* A tell was rejected with the error of a failure acknowledgement, another
\* resolved to 'Sent'.
C11_Witness ==
    \E j, k \in 1..Len(tells) :
        /\ tells[j].state = "rejected" /\ tells[j].value \in Errors
        /\ tells[k].state = "resolved" /\ tells[k].value = "Sent"

-----------------------------------------------------------------------------
(* Properties of get_status. *)

StatusGames == GameNames \cup {<<>>}

\* The refs the envelopes of a log carry.
RefsOf(log) == {log[k].ref : k \in 1..Len(log)}

\* The step sent exactly one envelope, the status query for game g with a
\* ref that is set and that no earlier envelope carries.
SentOneStatus(g) ==
    /\ Len(sent') = Len(sent) + 1
    /\ SubSeq(sent', 1, Len(sent)) = sent
    /\ LET e == sent'[Len(sent')]
       IN  /\ e.event = (IF Len(g) > 0 THEN "games/status" ELSE "players/status")
           /\ e.game = g
           /\ e.ref # 0
           /\ e.ref \notin RefsOf(sent)
           /\ e.name = "" /\ e.players = <<>> /\ e.to_name = <<>> /\ e.to_game = <<>>

\* The step left the correlation map, the waiters and the player list alone.
NoWaiterEnqueued == UNCHANGED <<event_listeners, waiters, tells, players>>

\* C12 (as the claim states it): every get_status(game) sends exactly one
\* envelope, the status query, and leaves the correlation map and the player
\* list as they were.
C12_StatusAlwaysSendsOne ==
    [][\A g \in StatusGames :
        (lastOp'.op = "get_status" /\ get_status(g))
        => SentOneStatus(g) /\ NoWaiterEnqueued]_vars

\* C12 (amended): a get_status(game) once the transport has connected sends
\* exactly one envelope, 'games/status' with game and a fresh ref for a
\* non-empty game string and 'players/status' with a fresh ref and nothing
\* else otherwise; before that it throws and sends nothing; in both cases
\* the correlation map and the player list are as before the call.
C12_StatusSendsOneEnqueuesNone ==
    [][\A g \in StatusGames :
        (lastOp'.op = "get_status" /\ get_status(g))
        => /\ NoWaiterEnqueued
           /\ UNCHANGED <<pc, socket, jsonOn, hbHandlers, emitted>>
           /\ IF CanSend
              THEN SentOneStatus(g) /\ lastOp'.thrown = "none"
              ELSE sent' = sent /\ lastOp'.thrown = "TypeError"]_vars

\* A 'games/status' query went out while the handshake waiter was queued.
C12_Witness ==
    /\ lastOp.op = "get_status"
    /\ lastOp.thrown = "none"
    /\ sent[Len(sent)].event = "games/status"
    /\ sent[Len(sent)].game = <<"g">>
    /\ Len(event_listeners["authenticate"]) = 1

-----------------------------------------------------------------------------
(* Properties of the heartbeat responder. *)

IsHeartbeat(e) == e.event = "heartbeat"

Heartbeats(log) == SelectSeq(log, IsHeartbeat)

IsHeartbeatNote(x) == x = "heartbeat"

\* C13: at most one heartbeat responder is ever installed, and it is
\* installed exactly when the startup function has run to its end on a
\* resolved handshake waiter; 'heartbeat' envelopes and notifications come
\* from heartbeat pings only; a ping that finds no responder sends and emits
\* nothing, a ping that finds it sends exactly one 'heartbeat' envelope
\* carrying the player list of that moment and emits exactly one 'heartbeat'.
C13_HeartbeatResponder ==
    [][/\ hbHandlers' <= 1
       /\ hbHandlers' = 1 <=> pc' = "done"
       /\ pc' = "done" => StartupResolved'
       /\ hbHandlers = 1 => hbHandlers' = 1
       /\ IF lastOp'.op = "heartbeat_ping"
          THEN IF hbHandlers = 0
               THEN sent' = sent /\ emitted' = emitted
               ELSE /\ sent' = Append(sent, [OutEnv("heartbeat") EXCEPT !.players = players])
                    /\ emitted' = Append(emitted, "heartbeat")
                    /\ players' = players
          ELSE /\ Heartbeats(sent') = Heartbeats(sent)
               /\ SelectSeq(emitted', IsHeartbeatNote) = SelectSeq(emitted, IsHeartbeatNote)]_vars

\* Two pings were answered, the second with a list of two players, the
\* first with another list.
C13_Witness ==
    /\ lastOp.op = "heartbeat_ping"
    /\ hbHandlers = 1
    /\ Len(Heartbeats(sent)) = 2
    /\ Len(Heartbeats(sent)[2].players) = 2
    /\ Heartbeats(sent)[1].players # Heartbeats(sent)[2].players
    /\ Len(SelectSeq(emitted, IsHeartbeatNote)) = 2

-----------------------------------------------------------------------------
(* Isolation of one event's waiters from the envelopes of another. *)

\* C14: a run of the 'json' handler on an envelope of event A leaves every
\* waiter of another event as it was (pending ones pending), leaves every
\* other queue, the player list and the connection state unchanged (a
\* rejected 'tells/send' included, on an authenticated connection as on any
\* other); a waiter is touched only by a run of the handler on an envelope
\* of its own event, so it stays pending while none is delivered, and what
\* was queued stays queued.
C14_OtherEventsUntouched ==
    [][/\ \A d \in Inbound :
            (JsonRan(d) /\ Deliver(d))
            => /\ \A i \in 1..Len(waiters) :
                    waiters[i].event # d.event => waiters'[i] = waiters[i]
               /\ \A e \in InEvents \ {d.event} : Queue(e)' = Queue(e)
               /\ UNCHANGED <<players, pc, socket, jsonOn, hbHandlers, sent, emitted>>
       /\ \A i \in 1..Len(waiters) :
            waiters'[i] # waiters[i]
            => lastOp'.op = "json" /\ lastOp'.name = waiters[i].event
       /\ \A e \in InEvents :
            /\ Len(Queue(e)') >= Len(Queue(e))
            /\ SubSeq(Queue(e)', 1, Len(Queue(e))) = Queue(e)]_vars

\* A failure acknowledgement of 'tells/send' rejected the waiter of that
\* event while the handshake waiter was pending; it is still pending and
\* queued, and the startup function still suspended on it.
C14_Witness ==
    /\ lastOp.op = "json"
    /\ lastOp.name = "tells/send"
    /\ pc = "wait_auth"
    /\ \E i \in Range(Queue("tells/send")) : waiters[i].state = "rejected"
    /\ \E i \in Range(Queue("authenticate")) : IsStartup(waiters[i]) /\ waiters[i].state = "pending"

-----------------------------------------------------------------------------
(* Properties of the constructor. *)

\* A credential that is missing, not a string, or the empty string.
IsBadCredential(c) == c.type \in {"undefined", "number"} \/ (c.type = "string" /\ c.len = 0)

\* C15: a constructor call with a bad client_id or client_secret throws a
\* TypeError at once and returns no object; after a throw the startup
\* function never runs: the socket stays null, nothing is sent, nothing is
\* emitted, no waiter exists and no further step happens.
C15_BadCredentialsThrowEarly ==
    [][/\ \A cid, csec \in Credentials, agent, version \in BOOLEAN :
            (/\ lastOp'.op = "constructor"
             /\ IsBadCredential(cid) \/ IsBadCredential(csec)
             /\ Construct(cid, csec, agent, version, <<>>))
            => pc' = "threw" /\ lastOp'.thrown = "TypeError"
       /\ pc' = "threw"
            => /\ socket' = "null" /\ sent' = <<>> /\ emitted' = <<>>
               /\ waiters' = <<>> /\ ~jsonOn'
       /\ pc # "threw"]_vars

\* The constructor threw for its client_secret, the client_id having passed.
C15_Witness ==
    /\ pc = "threw"
    /\ lastOp.op = "constructor"
    /\ lastOp.name = "client_secret"
    /\ lastOp.thrown = "TypeError"
    /\ sent = <<>>

-----------------------------------------------------------------------------
(* Properties of several tells pending at once. *)

\* The promises of send_tell whose waiter is pending.
PendingTells == {k \in 1..Len(tells) : tells[k].waiter # 0 /\ TellWaiter(k).state = "pending"}

\* C16: with two or more tells pending, an acknowledgement that carries a
\* status settles the waiter of the oldest pending tell only; the waiters of
\* the later ones stay pending for the acknowledgements that follow.
C16_OneAckSettlesOneTell ==
    [][\A d \in InboundTell :
        (JsonRan(d) /\ d.status # "absent" /\ Deliver(d))
        => \A j, k \in PendingTells :
            j < k => waiters'[tells[k].waiter].state = "pending"]_vars

\* C17: with two tells pending, an acknowledgement that carries the ref of
\* one of them settles the waiter of that one and leaves the waiter of the
\* other pending.
C17_AckSettlesItsOwnRef ==
    [][\A d \in InboundTell :
        (JsonRan(d) /\ d.status # "absent" /\ JsonHandler(d, lastOp'.ref))
        => \A j, k \in PendingTells :
            (tells[k].ref = lastOp'.ref /\ j # k)
            => /\ waiters'[tells[k].waiter].state # "pending"
               /\ waiters'[tells[j].waiter].state = "pending"]_vars

-----------------------------------------------------------------------------
(* Liveness of the handshake. *)

Authenticated == pc = "done" /\ "authenticated" \in Range(emitted)

\* The handler has just run on an 'authenticate' envelope of status "success".
AuthSuccessDelivered ==
    lastOp.op = "json" /\ lastOp.name = "authenticate" /\ lastOp.status = "success"

\* The handshake waiter was resolved by a 'success' acknowledgement.
HandshakeAcked ==
    \E i \in StartupWaiters :
        waiters[i].state = "resolved" /\ waiters[i].value.env.status = "success"

\* C18 (as the claim states it): whenever an 'authenticate' envelope of
\* status "success" has been delivered, whatever was delivered before it,
\* the connection eventually is authenticated and has emitted 'authenticated'.
C18_AnySuccessAuthenticates == AuthSuccessDelivered ~> Authenticated

\* C18 (amended): whenever an 'authenticate' envelope of status "success"
\* has been delivered to the pending handshake waiter, the connection
\* eventually is authenticated and has emitted 'authenticated', whatever
\* else is delivered or called in between.
C18_AckedHandshakeAuthenticates == HandshakeAcked ~> Authenticated

\* The startup function has just run to its end on a 'success'
\* acknowledgement, an envelope of another event having rejected a waiter of
\* the application in between.
C18_Witness ==
    /\ lastOp.op = "auth_resume"
    /\ Authenticated
    /\ HandshakeAcked
    /\ \E i \in 1..Len(waiters) : waiters[i].owner = "user" /\ waiters[i].state = "rejected"

-----------------------------------------------------------------------------
(* Order of what goes out on the connection. *)

\* C19: nothing is sent while the socket is null, and the first envelope
\* ever sent is the 'authenticate' request, whatever the application calls
\* and whenever it calls it.
C19_AuthenticateIsFirst ==
    /\ socket = "null" => sent = <<>>
    /\ sent # <<>> => sent[1].event = "authenticate"

\* The envelopes the step sent.
NewlySent == SubSeq(sent', Len(sent) + 1, Len(sent'))

\* The events whose requests are awaited through a waiter.
AwaitedEvents == {"authenticate", "tells/send"}

\* C20: a request that is awaited (the handshake's, a tell's) is sent with
\* the 'json' handler already installed and its waiter is enqueued in the
\* step that sends it, so whenever the handler runs on an envelope of an
\* event for which a request went out, a waiter of that event is queued.
C20_NoAckBeforeItsWaiter ==
    [][/\ \A k \in 1..Len(NewlySent) :
            NewlySent[k].event \in AwaitedEvents
            => /\ IF NewlySent[k].event = "authenticate" THEN jsonOn' ELSE jsonOn
               /\ Len(waiters') = Len(waiters) + 1
               /\ waiters'[Len(waiters')] = NewWaiter(NewlySent[k].event, waiters'[Len(waiters')].owner)
               /\ Len(waiters') \in Range(event_listeners'[NewlySent[k].event])
       /\ \A d \in Inbound :
            (JsonRan(d) /\ d.event \in AwaitedEvents /\ Deliver(d)
                /\ \E k \in 1..Len(sent) : sent[k].event = d.event)
            => HasQueue(event_listeners, d.event)]_vars

=============================================================================
